---- MODULE Spec2Model ----
(***************************************************************************)
(* Output splitting engine of repomix (src/core/output/outputSplit.ts).    *)
(*                                                                         *)
(* One invocation of generateSplitOutputParts is modelled as a state       *)
(* machine.  The renderer (deps.generateOutput), the tokenizer             *)
(* (calculateOutputMetrics) and the worker pool (initTaskRunner) are       *)
(* external collaborators: every call to one of them is a step whose       *)
(* result (a size, a count, or a failure) is chosen nondeterministically.  *)
(* A processed file is identified by its path; its content only reaches    *)
(* the collaborators.  A path is a sequence of one-character strings.      *)
(* The part's filePath (buildSplitOutputFilePath) and the progress         *)
(* callback carry no control flow and are left out of the part record.     *)
(***************************************************************************)
EXTENDS Integers, Sequences, FiniteSets, TLC

\* ------------------------------------------------------------------ bounds

\* Longest selected-files list (processedFiles).
MaxFiles == 3

\* Longest list of extra known paths in allFilePaths.
MaxAllPaths == 1

\* Largest byte length a render may have.
MaxBytes == 3

\* Largest number of known paths buildOutputSplitGroups is tried on.
MaxGroupPaths == 2

\* Largest valid byte budget that is tried.
MaxByteBudget == 2

\* ------------------------------------------------------------ input domains

\* An optional budget: undefined, or a supplied number.  A supplied number is
\* an integer (value) or a non-integer (value is then its integer part); safe
\* tells whether its magnitude is at most Number.MAX_SAFE_INTEGER.
Undefined == [supplied |-> FALSE, integer |-> FALSE, safe |-> FALSE, value |-> 0]
Number(n) == [supplied |-> TRUE, integer |-> TRUE, safe |-> TRUE, value |-> n]
Fraction(n) == [supplied |-> TRUE, integer |-> FALSE, safe |-> TRUE, value |-> n]

\* A positive integer above Number.MAX_SAFE_INTEGER, such as 2^53: no model
\* integer is that large, so value keeps its sign only.
Huge == [supplied |-> TRUE, integer |-> TRUE, safe |-> FALSE, value |-> 1]

\* undefined in the place of diff or log data.
NoData == "undefined"

\* The paths inputs are built from: a/x, a\y, b/x, c
PathPool ==
  { <<"a", "/", "x">>,
    <<"a", "\\", "y">>,
    <<"b", "/", "x">>,
    <<"c">> }

\* The paths buildOutputSplitGroups is tried on: those of PathPool, a path
\* with a leading separator (/a) and a path without separator (a).
GroupPathPool == PathPool \cup { <<"/", "a">>, <<"a">> }

\* Sequences of pairwise distinct elements of S, of length at most n.
RECURSIVE DistinctSeqs(_, _)
DistinctSeqs(S, n) ==
  IF n = 0 THEN { <<>> }
  ELSE LET shorter == DistinctSeqs(S, n - 1)
           longest == { t \in shorter : Len(t) = n - 1 }
           Fresh(t) == { x \in S : \A i \in 1..Len(t) : t[i] # x }
       IN  shorter \cup UNION { { Append(t, x) : x \in Fresh(t) } : t \in longest }

\* The elements of a sequence.
Range(s) == { s[i] : i \in 1..Len(s) }

\* Concatenation of a sequence of sequences (Array.prototype.flatMap with an
\* array-valued callback, or a plain concatenation of lists).
RECURSIVE Flatten(_)
Flatten(ss) == IF ss = <<>> THEN <<>> ELSE Head(ss) \o Flatten(Tail(ss))

\* ------------------------------------------------------------ pure helpers

\* relativeFilePath.replaceAll(path.win32.sep, path.posix.sep)
Normalize(p) == [i \in 1..Len(p) |-> IF p[i] = "\\" THEN "/" ELSE p[i]]

\* The first element of normalized.split('/'): the characters before the
\* first separator (the whole string when there is none).
RECURSIVE FirstSegment(_)
FirstSegment(s) ==
  IF s = <<>> \/ Head(s) = "/" THEN <<>>
  ELSE <<Head(s)>> \o FirstSegment(Tail(s))

\* getRootEntry: first || normalized
getRootEntry(relativeFilePath) ==
  LET normalized == Normalize(relativeFilePath)
      first      == FirstSegment(normalized)
  IN  IF first # <<>> THEN first ELSE normalized

\* Collation rank of a character (punctuation sorts before letters).
CharRank(c) ==
  CASE c = "/" -> 0
    [] c = "a" -> 1
    [] c = "b" -> 2
    [] c = "c" -> 3
    [] c = "x" -> 4
    [] OTHER   -> 5

\* a.localeCompare(b): negative, zero or positive.
RECURSIVE LocaleCompare(_, _)
LocaleCompare(a, b) ==
  IF a = <<>> /\ b = <<>> THEN 0
  ELSE IF a = <<>> THEN -1
  ELSE IF b = <<>> THEN 1
  ELSE IF CharRank(Head(a)) < CharRank(Head(b)) THEN -1
  ELSE IF CharRank(Head(a)) > CharRank(Head(b)) THEN 1
  ELSE LocaleCompare(Tail(a), Tail(b))

\* Index of the group of a root entry in a list of groups, 0 when absent
\* (groupsByRootEntry.get).
GroupIndex(gs, rootEntry) ==
  IF \E i \in 1..Len(gs) : gs[i].rootEntry = rootEntry
  THEN CHOOSE i \in 1..Len(gs) : gs[i].rootEntry = rootEntry
  ELSE 0

\* First loop of buildOutputSplitGroups, one known path.
AddKnownPath(gs, filePath) ==
  LET rootEntry == getRootEntry(filePath)
      i         == GroupIndex(gs, rootEntry)
  IN  IF i # 0
      THEN [gs EXCEPT ![i].allFilePaths = Append(@, filePath)]
      ELSE Append(gs, [rootEntry |-> rootEntry, processedFiles |-> <<>>,
                       allFilePaths |-> <<filePath>>])

\* Mutant of AddProcessedFile: the existing group of the root entry is not
\* looked up, every selected file opens a group.
AddProcessedFileAlwaysNew(gs, file) ==
  Append(gs, [rootEntry |-> getRootEntry(file), processedFiles |-> <<file>>,
              allFilePaths |-> <<file>>])

\* Second loop of buildOutputSplitGroups, one selected file.
AddProcessedFile(gs, file) ==
  LET rootEntry == getRootEntry(file)
      i         == GroupIndex(gs, rootEntry)
  IN  IF i # 0
      THEN [gs EXCEPT ![i].processedFiles = Append(@, file)]
      ELSE Append(gs, [rootEntry |-> rootEntry, processedFiles |-> <<file>>,
                       allFilePaths |-> <<file>>])

RECURSIVE AddKnownPaths(_, _)
AddKnownPaths(gs, paths) ==
  IF paths = <<>> THEN gs
  ELSE AddKnownPaths(AddKnownPath(gs, Head(paths)), Tail(paths))

RECURSIVE AddProcessedFiles(_, _)
AddProcessedFiles(gs, files) ==
  IF files = <<>> THEN gs
  ELSE AddProcessedFiles(AddProcessedFile(gs, Head(files)), Tail(files))

\* Mutant of InsertGroup: the comparator's arguments swapped
\* (b.rootEntry.localeCompare(a.rootEntry)).
RECURSIVE InsertGroupReversed(_, _)
InsertGroupReversed(sorted, g) ==
  IF sorted = <<>> THEN <<g>>
  ELSE IF LocaleCompare(Head(sorted).rootEntry, g.rootEntry) < 0
       THEN <<g>> \o sorted
       ELSE <<Head(sorted)>> \o InsertGroupReversed(Tail(sorted), g)

\* Stable insertion of g into a list sorted by rootEntry.
RECURSIVE InsertGroup(_, _)
InsertGroup(sorted, g) ==
  IF sorted = <<>> THEN <<g>>
  ELSE IF LocaleCompare(g.rootEntry, Head(sorted).rootEntry) < 0
       THEN <<g>> \o sorted
       ELSE <<Head(sorted)>> \o InsertGroup(Tail(sorted), g)

\* [...values].sort((a, b) => a.rootEntry.localeCompare(b.rootEntry))
RECURSIVE SortGroupsFrom(_, _)
SortGroupsFrom(sorted, rest) ==
  IF rest = <<>> THEN sorted
  ELSE SortGroupsFrom(InsertGroup(sorted, Head(rest)), Tail(rest))

\* Mutant of SortGroups: the groups are returned in the insertion order of
\* the map.
SortGroupsInsertionOrder(gs) == gs

\* The sort of the groups by root entry.
SortGroups(gs) == SortGroupsFrom(<<>>, gs)

\* buildOutputSplitGroups(processedFiles, allFilePaths)
buildOutputSplitGroups(files, paths) ==
  SortGroups(AddProcessedFiles(AddKnownPaths(<<>>, paths), files))

\* makeChunkConfig: the caller's configuration for part 1, a copy with
\* includeDiffs and includeLogs disabled for every other part.
makeChunkConfig(partIndex) ==
  IF partIndex = 1 THEN "baseConfig" ELSE "gitDisabled"

\* renderFiles: the call handed to generateOutputFn, together with the byte
\* length of the text the renderer answered with.
renderFiles(files, paths, partIndex, totalParts, bytes) ==
  [ files      |-> files,
    config     |-> makeChunkConfig(partIndex),
    gitDiff    |-> IF partIndex = 1 THEN "gitDiffResult" ELSE NoData,
    gitLog     |-> IF partIndex = 1 THEN "gitLogResult" ELSE NoData,
    partNumber |-> partIndex,
    totalParts |-> totalParts,
    totalFiles |-> Len(paths),
    bytes      |-> bytes ]

\* The empty string currentContent starts with.
EmptyContent ==
  [ files |-> <<>>, config |-> "none", gitDiff |-> NoData,
    gitLog |-> NoData, partNumber |-> 0, totalParts |-> 0,
    totalFiles |-> 0, bytes |-> 0 ]

\* getUtf8ByteLength
getUtf8ByteLength(content) == content.bytes

\* The selected files of a list of groups: groups.flatMap(g => g.processedFiles)
GroupFiles(gs) == Flatten([i \in 1..Len(gs) |-> gs[i].processedFiles])

\* ------------------------------------------------------------------- state

VARIABLES
  processedFiles,    \* input: the selected files, in the caller's order
  allFilePaths,      \* input: all known paths
  maxBytesPerPart,   \* input: byte budget or Undefined
  maxTokensPerPart,  \* input: token budget or Undefined
  pc,                \* position of the invocation
  groups,            \* byte mode: buildOutputSplitGroups(...)
  gi,                \* byte mode: index in groups of the loop variable group
  parts,             \* the local list parts of the running splitter
  currentGroups,     \* byte mode: the committed accumulator
  currentContent,    \* byte mode: its render
  currentBytes,      \* byte mode: its byte length
  taskRunner,        \* token mode: "none", "live", "releasing" (cleanup()
                     \* called and awaited), then "released" or, when
                     \* cleanup() rejected, "cleanupFailed"
  cleanupCalls,      \* token mode: number of taskRunner.cleanup() calls
  requests,          \* token mode: state of each taskRunner.run request
  tokenMap,          \* token mode: path -> estimate
  partFileData,      \* token mode: the pending batches
  currentFiles,      \* token mode: the batch being filled
  currentTokens,     \* token mode: its running total
  fi,                \* token mode: index of the file the packing loop is at
  content,           \* token mode: render awaiting exact verification
  outcome,           \* token mode: what the try block ended with
  measured,          \* the size last measured (nextBytes, singleGroupBytes
                     \* or tokenCount), -1 once a collaborator call failed
  result,            \* "none" while running, then "ok" or "error"
  returned,          \* the parts handed to the caller
  error,             \* the error raised to the caller
  calls,             \* number of calls made to each collaborator
  rendered,          \* the last call of generateOutput: what it was given
                     \* and the byte length it answered, -1 if it failed
  completionOrder    \* history: the indices of the answered requests, in
                     \* the order of their answers (kept by OrderSpec only)

inputVars == <<processedFiles, allFilePaths, maxBytesPerPart, maxTokensPerPart>>
byteVars  == <<groups, gi, currentGroups, currentContent, currentBytes>>
tokenVars == <<taskRunner, cleanupCalls, requests, tokenMap, partFileData,
               currentFiles, currentTokens, fi, content, outcome>>
exitVars  == <<result, returned, error>>
traceVars == <<calls, rendered, completionOrder>>
vars == <<inputVars, pc, parts, byteVars, tokenVars, measured, exitVars,
          traceVars>>

\* Estimation constant for overhead (XML tags, headers, etc.)
overheadPerFile == 20

\* Byte lengths a render may have.
RenderBytes == 0..MaxBytes

\* Token budgets that are tried, around one, two and three files of overhead.
TokenBudgets == {40, 41, 61}

\* Counts a pre-estimation request may answer with.
EstimateCounts == {0, 1, 30}

\* Counts the exact verification of a part may answer with: within every
\* budget of TokenBudgets, or above every one.
ExactCounts == {40, 62}

\* Byte lengths a render may have in token mode, where no decision reads it.
TokenRenderBytes == {0, MaxBytes}

\* The budgets of an invocation: <<maxBytesPerPart, maxTokensPerPart>>.
BudgetPairs ==
  { <<b, Undefined>> :
      b \in {Undefined, Number(0), Number(-1), Fraction(1), Huge}
             \cup { Number(n) : n \in 1..MaxByteBudget } }
    \cup { <<Undefined, t>> :
             t \in { Number(n) : n \in TokenBudgets }
                    \cup { Number(0), Number(-1), Fraction(41), Huge } }
    \cup { <<Number(0), Number(41)>>, <<Number(1), Number(41)>>,
           <<Number(1), Number(0)>>, <<Huge, Huge>> }

\* The lists of known paths tried with a selected-files list: some extra
\* paths, followed or not by the paths of the selected files.  The token
\* splitter reads only the length of the list, so no extra path is tried
\* when a token budget is supplied.
KnownPathLists(files, tokenBudget) ==
  LET extras == IF tokenBudget.supplied THEN { <<>> }
                ELSE DistinctSeqs(PathPool, MaxAllPaths)
  IN  extras \cup { extra \o files : extra \in extras }

NoError == [kind |-> "none", name |-> <<>>]

\* No call made yet: generateOutput, initTaskRunner, the taskRunner.run
\* requests of the pre-estimation, calculateOutputMetrics.
NoCalls == [generateOutput |-> 0, initTaskRunner |-> 0, run |-> 0,
            calculateOutputMetrics |-> 0]

\* n more calls of the collaborator fn.
Call(fn, n) == calls' = [calls EXCEPT ![fn] = @ + n]

\* The invocation has been made and none of its statements has run.
NotStarted ==
  /\ pc = "start"
  /\ groups = <<>>
  /\ gi = 0
  /\ parts = <<>>
  /\ currentGroups = <<>>
  /\ currentContent = EmptyContent
  /\ currentBytes = 0
  /\ taskRunner = "none"
  /\ cleanupCalls = 0
  /\ requests = <<>>
  /\ tokenMap = <<>>
  /\ partFileData = <<>>
  /\ currentFiles = <<>>
  /\ currentTokens = 0
  /\ fi = 0
  /\ content = EmptyContent
  /\ outcome = NoError
  /\ measured = 0
  /\ result = "none"
  /\ returned = <<>>
  /\ error = NoError
  /\ calls = NoCalls
  /\ rendered = EmptyContent
  /\ completionOrder = <<>>

Init ==
  /\ \E b \in BudgetPairs :
       /\ maxBytesPerPart = b[1]
       /\ maxTokensPerPart = b[2]
  /\ processedFiles \in DistinctSeqs(PathPool, MaxFiles)
  /\ allFilePaths \in KnownPathLists(processedFiles, maxTokensPerPart)
  /\ NotStarted

\* Mutant of ValidBudget: zero passes the validation.
ValidBudgetWithZero(v) == v.integer /\ v.safe /\ v.value >= 0

\* Number.isSafeInteger(v) && v > 0, for a supplied budget.
ValidBudget(v) == v.integer /\ v.safe /\ v.value > 0

\* The invocation ends by raising err: no parts reach the caller.
Throw(err) ==
  /\ pc' = "done"
  /\ result' = "error"
  /\ returned' = <<>>
  /\ error' = err

\* The invocation ends by returning ps.
Return(ps) ==
  /\ pc' = "done"
  /\ result' = "ok"
  /\ returned' = ps
  /\ error' = NoError

\* ------------------------------------------------- generateSplitOutputParts

InvalidMaxBytes ==
  /\ pc = "start"
  /\ maxBytesPerPart # Undefined
  /\ ~ValidBudget(maxBytesPerPart)
  /\ Throw([kind |-> "Invalid maxBytesPerPart", name |-> <<>>])
  /\ UNCHANGED <<inputVars, traceVars, measured, parts, byteVars, tokenVars>>

InvalidMaxTokens ==
  /\ pc = "start"
  /\ maxBytesPerPart = Undefined \/ ValidBudget(maxBytesPerPart)
  /\ maxTokensPerPart # Undefined
  /\ ~ValidBudget(maxTokensPerPart)
  /\ Throw([kind |-> "Invalid maxTokensPerPart", name |-> <<>>])
  /\ UNCHANGED <<inputVars, traceVars, measured, parts, byteVars, tokenVars>>

NoBudget ==
  /\ pc = "start"
  /\ maxBytesPerPart = Undefined
  /\ maxTokensPerPart = Undefined
  /\ Return(<<>>)
  /\ UNCHANGED <<inputVars, traceVars, measured, parts, byteVars, tokenVars>>

\* ------------------------------------------ generateSplitOutputPartsByBytes

\* Mutant of BytesSelected: a supplied byte budget selects the byte splitter
\* whether or not a token budget is supplied too.
BytesSelectedWithTokens ==
  /\ pc = "start"
  /\ maxBytesPerPart # Undefined
  /\ ValidBudget(maxBytesPerPart)

BytesSelected ==
  /\ pc = "start"
  /\ maxTokensPerPart = Undefined
  /\ maxBytesPerPart # Undefined
  /\ ValidBudget(maxBytesPerPart)

\* The call with no group at all returns the empty list.
BytesNoGroups ==
  /\ BytesSelected
  /\ buildOutputSplitGroups(processedFiles, allFilePaths) = <<>>
  /\ groups' = <<>>
  /\ Return(<<>>)
  /\ UNCHANGED <<inputVars, traceVars, measured, parts, gi, currentGroups, currentContent,
                 currentBytes, tokenVars>>

\* The groups are built and the loop reaches its first trial render.
BytesStart ==
  /\ BytesSelected
  /\ buildOutputSplitGroups(processedFiles, allFilePaths) # <<>>
  /\ groups' = buildOutputSplitGroups(processedFiles, allFilePaths)
  /\ gi' = 1
  /\ pc' = "trial"
  /\ UNCHANGED <<inputVars, traceVars, measured, parts, currentGroups, currentContent,
                 currentBytes, tokenVars, exitVars>>

\* Mutant of TrialRender: the total announced is the number of parts opened
\* so far.
TrialRenderCountsParts(bytes) ==
  renderFiles(GroupFiles(Append(currentGroups, groups[gi])), allFilePaths,
              Len(parts) + 1, Len(parts) + 1, bytes)

\* The trial render of the loop body: the accumulator extended by group.
TrialRender(bytes) ==
  renderFiles(GroupFiles(Append(currentGroups, groups[gi])), allFilePaths,
              Len(parts) + 1, Len(groups), bytes)

\* Leaving the loop body: the next group, or the final flush after the last.
NextGroup ==
  /\ gi' = gi + 1
  /\ pc' = IF gi = Len(groups) THEN "flush" ELSE "trial"

\* nextBytes <= maxBytesPerPart: the extension is accepted.
BytesAccept ==
  /\ pc = "trial"
  /\ \E bytes \in RenderBytes :
       LET nextContent == TrialRender(bytes)
           nextBytes   == getUtf8ByteLength(nextContent)
       IN  /\ nextBytes <= maxBytesPerPart.value
           /\ currentGroups' = Append(currentGroups, groups[gi])
           /\ currentContent' = nextContent
           /\ currentBytes' = nextBytes
           /\ measured' = nextBytes
           /\ rendered' = nextContent
  /\ NextGroup
  /\ Call("generateOutput", 1)
  /\ UNCHANGED <<inputVars, completionOrder, parts, groups, tokenVars, exitVars>>

\* Over budget with an empty accumulator: the group cannot be split.
BytesFirstTooLarge ==
  /\ pc = "trial"
  /\ \E bytes \in RenderBytes :
       LET nextBytes == getUtf8ByteLength(TrialRender(bytes))
       IN  /\ ~(nextBytes <= maxBytesPerPart.value)
           /\ measured' = nextBytes
           /\ rendered' = TrialRender(bytes)
  /\ Len(currentGroups) = 0
  /\ Throw([kind |-> "exceeds max size", name |-> groups[gi].rootEntry])
  /\ Call("generateOutput", 1)
  /\ UNCHANGED <<inputVars, completionOrder, parts, byteVars, tokenVars>>

\* Mutant of BytesClose: a non-empty accumulator is closed whatever the
\* trial measured.
BytesCloseAnyTrial ==
  /\ pc = "trial"
  /\ \E bytes \in RenderBytes :
       LET nextBytes == getUtf8ByteLength(TrialRender(bytes))
       IN  /\ measured' = nextBytes
           /\ rendered' = TrialRender(bytes)
  /\ Len(currentGroups) # 0
  /\ parts' = Append(parts, [ index      |-> Len(parts) + 1,
                              content    |-> currentContent,
                              byteLength |-> currentBytes,
                              tokenCount |-> 0,
                              groups     |-> currentGroups ])
  /\ pc' = "retry"
  /\ Call("generateOutput", 1)
  /\ UNCHANGED <<inputVars, completionOrder, byteVars, tokenVars, exitVars>>

\* Over budget with a non-empty accumulator: it is closed as a part and the
\* group is rendered alone next.
BytesClose ==
  /\ pc = "trial"
  /\ \E bytes \in RenderBytes :
       LET nextBytes == getUtf8ByteLength(TrialRender(bytes))
       IN  /\ ~(nextBytes <= maxBytesPerPart.value)
           /\ measured' = nextBytes
           /\ rendered' = TrialRender(bytes)
  /\ Len(currentGroups) # 0
  /\ parts' = Append(parts, [ index      |-> Len(parts) + 1,
                              content    |-> currentContent,
                              byteLength |-> currentBytes,
                              tokenCount |-> 0,
                              groups     |-> currentGroups ])
  /\ pc' = "retry"
  /\ Call("generateOutput", 1)
  /\ UNCHANGED <<inputVars, completionOrder, byteVars, tokenVars, exitVars>>

\* Mutant of SingleGroupRender: the group alone is rendered under the index
\* of the part just closed.
SingleGroupRenderOldIndex(bytes) ==
  renderFiles(groups[gi].processedFiles, allFilePaths, Len(parts),
              Len(groups), bytes)

\* The render of the group alone, under the index of the part just opened.
SingleGroupRender(bytes) ==
  renderFiles(groups[gi].processedFiles, allFilePaths, Len(parts) + 1,
              Len(groups), bytes)

\* Mutant of BytesRetryAccept: the render of the group alone is taken without
\* comparing it with the budget.
BytesRetryAcceptUnchecked ==
  /\ pc = "retry"
  /\ \E bytes \in RenderBytes :
       LET singleGroupContent == SingleGroupRender(bytes)
           singleGroupBytes   == getUtf8ByteLength(singleGroupContent)
       IN  /\ currentGroups' = <<groups[gi]>>
           /\ currentContent' = singleGroupContent
           /\ currentBytes' = singleGroupBytes
           /\ measured' = singleGroupBytes
           /\ rendered' = singleGroupContent
  /\ NextGroup
  /\ Call("generateOutput", 1)
  /\ UNCHANGED <<inputVars, completionOrder, parts, groups, tokenVars, exitVars>>

\* The group alone fits: it becomes the accumulator.
BytesRetryAccept ==
  /\ pc = "retry"
  /\ \E bytes \in RenderBytes :
       LET singleGroupContent == SingleGroupRender(bytes)
           singleGroupBytes   == getUtf8ByteLength(singleGroupContent)
       IN  /\ ~(singleGroupBytes > maxBytesPerPart.value)
           /\ currentGroups' = <<groups[gi]>>
           /\ currentContent' = singleGroupContent
           /\ currentBytes' = singleGroupBytes
           /\ measured' = singleGroupBytes
           /\ rendered' = singleGroupContent
  /\ NextGroup
  /\ Call("generateOutput", 1)
  /\ UNCHANGED <<inputVars, completionOrder, parts, groups, tokenVars, exitVars>>

\* Mutant of BytesRetryTooLarge: the loop is left and the parts closed so far
\* are returned instead of an error being raised.
BytesRetryTooLargeReturnsParts ==
  /\ pc = "retry"
  /\ \E bytes \in RenderBytes :
       LET singleGroupBytes == getUtf8ByteLength(SingleGroupRender(bytes))
       IN  /\ singleGroupBytes > maxBytesPerPart.value
           /\ measured' = singleGroupBytes
           /\ rendered' = SingleGroupRender(bytes)
  /\ Return(parts)
  /\ Call("generateOutput", 1)
  /\ UNCHANGED <<inputVars, completionOrder, parts, byteVars, tokenVars>>

\* The group alone is over budget.
BytesRetryTooLarge ==
  /\ pc = "retry"
  /\ \E bytes \in RenderBytes :
       LET singleGroupBytes == getUtf8ByteLength(SingleGroupRender(bytes))
       IN  /\ singleGroupBytes > maxBytesPerPart.value
           /\ measured' = singleGroupBytes
           /\ rendered' = SingleGroupRender(bytes)
  /\ Throw([kind |-> "exceeds max size", name |-> groups[gi].rootEntry])
  /\ Call("generateOutput", 1)
  /\ UNCHANGED <<inputVars, completionOrder, parts, byteVars, tokenVars>>

\* The renderer itself fails: the error reaches the caller unchanged.
BytesRenderFails ==
  /\ pc \in {"trial", "retry"}
  /\ Throw([kind |-> "renderer", name |-> <<>>])
  /\ measured' = -1
  /\ rendered' = IF pc = "trial" THEN TrialRender(-1)
                  ELSE SingleGroupRender(-1)
  /\ Call("generateOutput", 1)
  /\ UNCHANGED <<inputVars, completionOrder, parts, byteVars, tokenVars>>

\* After the loop: a non-empty accumulator is the final part.
BytesFlush ==
  /\ pc = "flush"
  /\ LET final == IF Len(currentGroups) > 0
                  THEN Append(parts, [ index      |-> Len(parts) + 1,
                                       content    |-> currentContent,
                                       byteLength |-> currentBytes,
                                       tokenCount |-> 0,
                                       groups     |-> currentGroups ])
                  ELSE parts
     IN  /\ parts' = final
         /\ Return(final)
  /\ UNCHANGED <<inputVars, traceVars, measured, byteVars, tokenVars>>

\* ----------------------------------------- generateSplitOutputPartsByTokens

TokensSelected ==
  /\ pc = "start"
  /\ maxBytesPerPart = Undefined \/ ValidBudget(maxBytesPerPart)
  /\ maxTokensPerPart # Undefined
  /\ ValidBudget(maxTokensPerPart)

\* initTaskRunner creates the pool; inside the try block every file's
\* taskRunner.run request is dispatched before Promise.all is awaited.
TokensStart ==
  /\ TokensSelected
  /\ taskRunner' = "live"
  /\ requests' = [i \in 1..Len(processedFiles) |->
                    [status |-> "pending", count |-> 0]]
  /\ pc' = "estimating"
  /\ calls' = [calls EXCEPT !.initTaskRunner = @ + 1,
                           !.run = @ + Len(processedFiles)]
  /\ UNCHANGED <<inputVars, rendered, completionOrder, measured, parts, byteVars, cleanupCalls, tokenMap,
                 partFileData, currentFiles, currentTokens, fi, content,
                 outcome, exitVars>>

\* initTaskRunner itself fails, before the try block: no pool exists.
TokensInitFails ==
  /\ TokensSelected
  /\ Throw([kind |-> "initTaskRunner", name |-> <<>>])
  /\ Call("initTaskRunner", 1)
  /\ UNCHANGED <<inputVars, rendered, completionOrder, measured, parts, byteVars, tokenVars>>

\* A worker answers one pre-estimation request: while the pool is live, or
\* while the awaited cleanup() has not settled yet.
RequestCompletes ==
  /\ taskRunner \in {"live", "releasing"}
  /\ \E i \in 1..Len(requests) : \E c \in EstimateCounts :
       /\ requests[i].status = "pending"
       /\ requests' = [requests EXCEPT ![i] = [status |-> "done", count |-> c]]
  /\ UNCHANGED <<inputVars, traceVars, measured, pc, parts, byteVars, taskRunner, cleanupCalls,
                 tokenMap, partFileData, currentFiles, currentTokens, fi,
                 content, outcome, exitVars>>

\* The same step, with the history of the answers kept: the index of the
\* answered request is appended to completionOrder.
RequestCompletesLogged ==
  /\ taskRunner \in {"live", "releasing"}
  /\ \E i \in 1..Len(requests) : \E c \in EstimateCounts :
       /\ requests[i].status = "pending"
       /\ requests' = [requests EXCEPT ![i] = [status |-> "done", count |-> c]]
       /\ completionOrder' = Append(completionOrder, i)
  /\ UNCHANGED <<inputVars, calls, rendered, measured, pc, parts, byteVars,
                 taskRunner, cleanupCalls, tokenMap, partFileData,
                 currentFiles, currentTokens, fi, content, outcome, exitVars>>

\* One pre-estimation request fails.
RequestFails ==
  /\ taskRunner \in {"live", "releasing"}
  /\ \E i \in 1..Len(requests) :
       /\ requests[i].status = "pending"
       /\ requests' = [requests EXCEPT ![i].status = "failed"]
  /\ UNCHANGED <<inputVars, traceVars, measured, pc, parts, byteVars, taskRunner, cleanupCalls,
                 tokenMap, partFileData, currentFiles, currentTokens, fi,
                 content, outcome, exitVars>>

\* The try block ends with err (kind "none": the return of parts); control
\* passes to the finally block, which calls taskRunner.cleanup() and awaits
\* it.
Finally(err) ==
  /\ outcome' = err
  /\ cleanupCalls' = cleanupCalls + 1
  /\ taskRunner' = "releasing"
  /\ pc' = "cleanup"

\* Mutant of EstimatesResolve: the answers are attributed to the files in
\* the order of their arrival, the k-th answer to the k-th file.
EstimatesResolveByArrival ==
  /\ pc = "estimating"
  /\ \A i \in 1..Len(requests) : requests[i].status = "done"
  /\ tokenMap' = [p \in Range(processedFiles) |->
                    LET i == CHOOSE j \in 1..Len(processedFiles) :
                               processedFiles[j] = p
                    IN  requests[completionOrder[i]].count]
  /\ fi' = 1
  /\ pc' = "packing"
  /\ UNCHANGED <<inputVars, traceVars, measured, parts, byteVars, taskRunner,
                 cleanupCalls, requests, partFileData, currentFiles,
                 currentTokens, content, outcome, exitVars>>

\* Mutant of EstimatesResolve: the requests are awaited until all are
\* settled, a failed one counting for 0.
EstimatesResolveSettled ==
  /\ pc = "estimating"
  /\ \A i \in 1..Len(requests) : requests[i].status # "pending"
  /\ tokenMap' = [p \in Range(processedFiles) |->
                    LET i == CHOOSE j \in 1..Len(processedFiles) :
                               processedFiles[j] = p
                    IN  requests[i].count]
  /\ fi' = 1
  /\ pc' = "packing"
  /\ UNCHANGED <<inputVars, traceVars, measured, parts, byteVars, taskRunner,
                 cleanupCalls, requests, partFileData, currentFiles,
                 currentTokens, content, outcome, exitVars>>

\* Mutant of EstimatesResolve: the packing starts on the first answer, a
\* request not answered yet counting for 0.
EstimatesResolveOnFirst ==
  /\ pc = "estimating"
  /\ \E i \in 1..Len(requests) : requests[i].status = "done"
  /\ \A i \in 1..Len(requests) : requests[i].status # "failed"
  /\ tokenMap' = [p \in Range(processedFiles) |->
                    LET i == CHOOSE j \in 1..Len(processedFiles) :
                               processedFiles[j] = p
                    IN  requests[i].count]
  /\ fi' = 1
  /\ pc' = "packing"
  /\ UNCHANGED <<inputVars, traceVars, measured, parts, byteVars, taskRunner,
                 cleanupCalls, requests, partFileData, currentFiles,
                 currentTokens, content, outcome, exitVars>>

\* Promise.all resolves: tokenMap is built and the packing loop starts.
EstimatesResolve ==
  /\ pc = "estimating"
  /\ \A i \in 1..Len(requests) : requests[i].status = "done"
  /\ tokenMap' = [p \in Range(processedFiles) |->
                    LET i == CHOOSE j \in 1..Len(processedFiles) :
                               processedFiles[j] = p
                    IN  requests[i].count]
  /\ fi' = 1
  /\ pc' = "packing"
  /\ UNCHANGED <<inputVars, traceVars, measured, parts, byteVars, taskRunner, cleanupCalls,
                 requests, partFileData, currentFiles, currentTokens, content,
                 outcome, exitVars>>

\* Mutant of EstimatesReject: the estimation is awaited outside the try
\* block, its failure reaches the caller without the finally block running.
EstimatesRejectSkipsCleanup ==
  /\ pc = "estimating"
  /\ \E i \in 1..Len(requests) : requests[i].status = "failed"
  /\ Throw([kind |-> "tokenizer", name |-> <<>>])
  /\ UNCHANGED <<inputVars, traceVars, measured, parts, byteVars, tokenVars>>

\* Promise.all rejects as soon as one request has failed.
EstimatesReject ==
  /\ pc = "estimating"
  /\ \E i \in 1..Len(requests) : requests[i].status = "failed"
  /\ Finally([kind |-> "tokenizer", name |-> <<>>])
  /\ UNCHANGED <<inputVars, traceVars, measured, parts, byteVars, requests, tokenMap, partFileData, currentFiles,
                 currentTokens, fi, content, exitVars>>

\* Mutant of FileTokens: the overhead is not added to the estimate.
FileTokensNoOverhead(map, file) == map[file]

\* (tokenMap.get(file.path) || 0) + overheadPerFile
FileTokens(map, file) == map[file] + overheadPerFile

\* Mutant of PackOversized: the oversized file is pushed together with the
\* files of the current batch.
PackOversizedJoinsCurrent ==
  /\ pc = "packing"
  /\ fi <= Len(processedFiles)
  /\ LET file       == processedFiles[fi]
         fileTokens == FileTokens(tokenMap, file)
     IN  /\ fileTokens > maxTokensPerPart.value
         /\ IF Len(currentFiles) > 0
            THEN /\ partFileData' = Append(partFileData,
                                        Append(currentFiles, file))
                 /\ currentFiles' = <<>>
                 /\ currentTokens' = 0
            ELSE /\ partFileData' = Append(partFileData, <<file>>)
                 /\ UNCHANGED <<currentFiles, currentTokens>>
  /\ fi' = fi + 1
  /\ UNCHANGED <<inputVars, traceVars, measured, pc, parts, byteVars, taskRunner, cleanupCalls,
                 requests, tokenMap, content, outcome, exitVars>>

\* fileTokens > maxTokensPerPart: a non-empty current batch is flushed and
\* the file is a pending batch by itself.
PackOversized ==
  /\ pc = "packing"
  /\ fi <= Len(processedFiles)
  /\ LET file       == processedFiles[fi]
         fileTokens == FileTokens(tokenMap, file)
     IN  /\ fileTokens > maxTokensPerPart.value
         /\ IF Len(currentFiles) > 0
            THEN /\ partFileData' = Append(Append(partFileData, currentFiles),
                                           <<file>>)
                 /\ currentFiles' = <<>>
                 /\ currentTokens' = 0
            ELSE /\ partFileData' = Append(partFileData, <<file>>)
                 /\ UNCHANGED <<currentFiles, currentTokens>>
  /\ fi' = fi + 1
  /\ UNCHANGED <<inputVars, traceVars, measured, pc, parts, byteVars, taskRunner, cleanupCalls,
                 requests, tokenMap, content, outcome, exitVars>>

\* Mutant of PackFlush: the new batch is started without pushing the current
\* one.
PackFlushDropsBatch ==
  /\ pc = "packing"
  /\ fi <= Len(processedFiles)
  /\ LET file       == processedFiles[fi]
         fileTokens == FileTokens(tokenMap, file)
     IN  /\ ~(fileTokens > maxTokensPerPart.value)
         /\ currentTokens + fileTokens > maxTokensPerPart.value
         /\ partFileData' = partFileData
         /\ currentFiles' = <<file>>
         /\ currentTokens' = fileTokens
  /\ fi' = fi + 1
  /\ UNCHANGED <<inputVars, traceVars, measured, pc, parts, byteVars, taskRunner,
                 cleanupCalls, requests, tokenMap, content, outcome, exitVars>>

\* currentTokens + fileTokens > maxTokensPerPart: the current batch is
\* flushed and the file starts a new one.
PackFlush ==
  /\ pc = "packing"
  /\ fi <= Len(processedFiles)
  /\ LET file       == processedFiles[fi]
         fileTokens == FileTokens(tokenMap, file)
     IN  /\ ~(fileTokens > maxTokensPerPart.value)
         /\ currentTokens + fileTokens > maxTokensPerPart.value
         /\ partFileData' = Append(partFileData, currentFiles)
         /\ currentFiles' = <<file>>
         /\ currentTokens' = fileTokens
  /\ fi' = fi + 1
  /\ UNCHANGED <<inputVars, traceVars, measured, pc, parts, byteVars, taskRunner, cleanupCalls,
                 requests, tokenMap, content, outcome, exitVars>>

\* Mutant of PackJoin: the file joins the current batch without the running
\* total being compared with the budget.
PackJoinUnchecked ==
  /\ pc = "packing"
  /\ fi <= Len(processedFiles)
  /\ LET file       == processedFiles[fi]
         fileTokens == FileTokens(tokenMap, file)
     IN  /\ ~(fileTokens > maxTokensPerPart.value)
         /\ currentFiles' = Append(currentFiles, file)
         /\ currentTokens' = currentTokens + fileTokens
  /\ fi' = fi + 1
  /\ UNCHANGED <<inputVars, traceVars, measured, pc, parts, byteVars, taskRunner,
                 cleanupCalls, requests, tokenMap, partFileData, content,
                 outcome, exitVars>>

\* Otherwise the file joins the current batch.
PackJoin ==
  /\ pc = "packing"
  /\ fi <= Len(processedFiles)
  /\ LET file       == processedFiles[fi]
         fileTokens == FileTokens(tokenMap, file)
     IN  /\ ~(fileTokens > maxTokensPerPart.value)
         /\ ~(currentTokens + fileTokens > maxTokensPerPart.value)
         /\ currentFiles' = Append(currentFiles, file)
         /\ currentTokens' = currentTokens + fileTokens
  /\ fi' = fi + 1
  /\ UNCHANGED <<inputVars, traceVars, measured, pc, parts, byteVars, taskRunner, cleanupCalls,
                 requests, tokenMap, partFileData, content, outcome,
                 exitVars>>

\* After the loop: a non-empty trailing batch is flushed; rendering starts.
PackEnd ==
  /\ pc = "packing"
  /\ fi > Len(processedFiles)
  /\ partFileData' = IF Len(currentFiles) > 0
                     THEN Append(partFileData, currentFiles)
                     ELSE partFileData
  /\ pc' = "render"
  /\ UNCHANGED <<inputVars, traceVars, measured, parts, byteVars, taskRunner, cleanupCalls,
                 requests, tokenMap, currentFiles, currentTokens, fi, content,
                 outcome, exitVars>>

\* The batch the render loop is at: files = partFileData[i], i = parts.length.
BatchFiles == partFileData[Len(parts) + 1]

\* The render of the next pending batch.
TokensRender ==
  /\ pc = "render"
  /\ Len(parts) < Len(partFileData)
  /\ \E bytes \in TokenRenderBytes :
       content' = renderFiles(BatchFiles, allFilePaths, Len(parts) + 1,
                              Len(partFileData), bytes)
  /\ rendered' = content'
  /\ Call("generateOutput", 1)
  /\ pc' = "verify"
  /\ UNCHANGED <<inputVars, completionOrder, measured, parts, byteVars, taskRunner, cleanupCalls,
                 requests, tokenMap, partFileData, currentFiles,
                 currentTokens, fi, outcome, exitVars>>

\* The renderer fails.
TokensRenderFails ==
  /\ pc = "render"
  /\ Len(parts) < Len(partFileData)
  /\ Finally([kind |-> "renderer", name |-> <<>>])
  /\ measured' = -1
  /\ rendered' = renderFiles(BatchFiles, allFilePaths, Len(parts) + 1,
                           Len(partFileData), -1)
  /\ Call("generateOutput", 1)
  /\ UNCHANGED <<inputVars, completionOrder, parts, byteVars, requests, tokenMap, partFileData, currentFiles,
                 currentTokens, fi, content, exitVars>>

\* Mutant of SingleFileOverBudget: the exact check applied to the multi-file
\* batches instead of the single-file ones.
SingleFileOverBudgetWrongArity(files, tokenCount) ==
  Len(files) > 1 /\ tokenCount > maxTokensPerPart.value

\* files.length === 1 && tokenCount > maxTokensPerPart
SingleFileOverBudget(files, tokenCount) ==
  Len(files) = 1 /\ tokenCount > maxTokensPerPart.value

\* The exact count is accepted and the part is pushed.
TokensCommit ==
  /\ pc = "verify"
  /\ \E tokenCount \in ExactCounts :
       /\ ~SingleFileOverBudget(BatchFiles, tokenCount)
       /\ measured' = tokenCount
       /\ parts' = Append(parts, [ index      |-> Len(parts) + 1,
                                   content    |-> content,
                                   byteLength |-> getUtf8ByteLength(content),
                                   tokenCount |-> tokenCount,
                                   groups     |-> <<>> ])
  /\ pc' = "render"
  /\ Call("calculateOutputMetrics", 1)
  /\ UNCHANGED <<inputVars, rendered, completionOrder, byteVars, tokenVars, exitVars>>

\* A single-file batch is over budget: the split fails.
TokensFileTooLarge ==
  /\ pc = "verify"
  /\ \E tokenCount \in ExactCounts :
       /\ SingleFileOverBudget(BatchFiles, tokenCount)
       /\ measured' = tokenCount
  /\ Finally([kind |-> "exceeds max tokens", name |-> BatchFiles[1]])
  /\ Call("calculateOutputMetrics", 1)
  /\ UNCHANGED <<inputVars, rendered, completionOrder, parts, byteVars, requests, tokenMap, partFileData, currentFiles,
                 currentTokens, fi, content, exitVars>>

\* calculateOutputMetrics fails.
TokensVerifyFails ==
  /\ pc = "verify"
  /\ Finally([kind |-> "tokenizer", name |-> <<>>])
  /\ measured' = -1
  /\ Call("calculateOutputMetrics", 1)
  /\ UNCHANGED <<inputVars, rendered, completionOrder, parts, byteVars, requests, tokenMap, partFileData, currentFiles,
                 currentTokens, fi, content, exitVars>>

\* Every batch is rendered and verified: return parts.
TokensReturn ==
  /\ pc = "render"
  /\ ~(Len(parts) < Len(partFileData))
  /\ Finally(NoError)
  /\ UNCHANGED <<inputVars, traceVars, measured, parts, byteVars, requests, tokenMap, partFileData, currentFiles,
                 currentTokens, fi, content, exitVars>>

\* Mutant of Cleanup: the finally block returns parts itself, which replaces
\* an error raised in the try block.
CleanupReturnsParts ==
  /\ pc = "cleanup"
  /\ taskRunner' = "released"
  /\ Return(parts)
  /\ UNCHANGED <<inputVars, traceVars, measured, parts, byteVars,
                 cleanupCalls, requests, tokenMap, partFileData,
                 currentFiles, currentTokens, fi, content, outcome>>

\* The awaited taskRunner.cleanup() resolves: the try block's outcome
\* reaches the caller.
Cleanup ==
  /\ pc = "cleanup"
  /\ taskRunner' = "released"
  /\ IF outcome.kind = "none" THEN Return(parts) ELSE Throw(outcome)
  /\ UNCHANGED <<inputVars, traceVars, measured, parts, byteVars,
                 cleanupCalls, requests, tokenMap, partFileData,
                 currentFiles, currentTokens, fi, content, outcome>>

\* The awaited taskRunner.cleanup() rejects: its error leaves the finally
\* block in the place of the try block's outcome, a return of parts or an
\* error alike.
CleanupFails ==
  /\ pc = "cleanup"
  /\ taskRunner' = "cleanupFailed"
  /\ Throw([kind |-> "cleanup", name |-> <<>>])
  /\ UNCHANGED <<inputVars, traceVars, measured, parts, byteVars,
                 cleanupCalls, requests, tokenMap, partFileData,
                 currentFiles, currentTokens, fi, content, outcome>>

\* ------------------------------------------------------------ specification

Next ==
  \/ InvalidMaxBytes
  \/ InvalidMaxTokens
  \/ NoBudget
  \/ BytesNoGroups
  \/ BytesStart
  \/ BytesAccept
  \/ BytesFirstTooLarge
  \/ BytesClose
  \/ BytesRetryAccept
  \/ BytesRetryTooLarge
  \/ BytesRenderFails
  \/ BytesFlush
  \/ TokensStart
  \/ TokensInitFails
  \/ RequestCompletes
  \/ RequestFails
  \/ EstimatesResolve
  \/ EstimatesReject
  \/ PackOversized
  \/ PackFlush
  \/ PackJoin
  \/ PackEnd
  \/ TokensRender
  \/ TokensRenderFails
  \/ TokensCommit
  \/ TokensFileTooLarge
  \/ TokensVerifyFails
  \/ TokensReturn
  \/ Cleanup
  \/ CleanupFails

Spec == Init /\ [][Next]_vars

\* Every step the invocation can take is eventually taken: collaborator
\* calls answer, and the sequential flow of the splitter goes on.
FairSpec == Spec /\ WF_vars(Next)

\* The byte splitter ran (or is running).
ByteMode ==
  /\ ~maxTokensPerPart.supplied
  /\ maxBytesPerPart.supplied
  /\ ValidBudget(maxBytesPerPart)

\* The token splitter ran (or is running).
TokenMode ==
  /\ maxTokensPerPart.supplied
  /\ ValidBudget(maxTokensPerPart)
  /\ ~maxBytesPerPart.supplied \/ ValidBudget(maxBytesPerPart)

\* The token splitter alone, for the life of its worker pool: the
\* invocations with a valid token budget and no byte budget, whose known
\* paths are those of the selected files.
TokensInit ==
  /\ Init
  /\ TokenMode
  /\ maxBytesPerPart = Undefined
  /\ allFilePaths = processedFiles

TokensNext ==
  \/ TokensStart
  \/ TokensInitFails
  \/ RequestCompletes
  \/ RequestFails
  \/ EstimatesResolve
  \/ EstimatesReject
  \/ PackOversized
  \/ PackFlush
  \/ PackJoin
  \/ PackEnd
  \/ TokensRender
  \/ TokensRenderFails
  \/ TokensCommit
  \/ TokensFileTooLarge
  \/ TokensVerifyFails
  \/ TokensReturn
  \/ Cleanup
  \/ CleanupFails

\* Every await of the token splitter is answered and its sequential flow
\* goes on: a step that can be taken is eventually taken.
TokensFairSpec == TokensInit /\ [][TokensNext]_vars /\ WF_vars(TokensNext)

\* The pre-estimation and the packing of the token splitter, with the order
\* of the answers kept in completionOrder: from the dispatch of the requests
\* to the end of the packing loop, every request being answered.
OrderInit == TokensInit

OrderNext ==
  \/ TokensStart
  \/ RequestCompletesLogged
  \/ EstimatesResolve
  \/ PackOversized
  \/ PackFlush
  \/ PackJoin
  \/ PackEnd

OrderSpec == OrderInit /\ [][OrderNext]_vars

\* buildOutputSplitGroups alone: the byte splitter's first statement on
\* selected files and known paths drawn independently from GroupPathPool.
GroupsInit ==
  /\ maxBytesPerPart = Number(1)
  /\ maxTokensPerPart = Undefined
  /\ processedFiles \in DistinctSeqs(GroupPathPool, MaxFiles)
  /\ allFilePaths \in DistinctSeqs(GroupPathPool, MaxGroupPaths)
  /\ NotStarted

GroupsNext ==
  \/ BytesNoGroups
  \/ BytesStart

GroupsSpec == GroupsInit /\ [][GroupsNext]_vars

\* ------------------------------------------------------------------ claims

\* A split returned its parts to the caller.
SplitSucceeded == result = "ok" /\ (ByteMode \/ TokenMode)

\* The files a part embeds: the selected files of its groups in byte mode,
\* the files of the batch rendered for it in token mode.
Embedded(part) ==
  IF ByteMode THEN GroupFiles(part.groups) ELSE part.content.files

\* The places <<part, position>> at which file f is embedded in a list of parts.
Positions(ps, f) ==
  UNION { { <<k, j>> : j \in { n \in 1..Len(Embedded(ps[k])) :
                                  Embedded(ps[k])[n] = f } } :
          k \in 1..Len(ps) }

\* C1: after a successful split, in byte mode and in token mode, every
\* selected file is embedded in exactly one returned part, exactly once.
C1_EveryFileInExactlyOnePart ==
  SplitSucceeded =>
    \A i \in 1..Len(processedFiles) :
      Cardinality(Positions(returned, processedFiles[i])) = 1

\* C1 witness: a successful token-mode split of three files into two or more
\* parts, one of which embeds two files.
C1_Witness ==
  /\ SplitSucceeded
  /\ TokenMode
  /\ Len(processedFiles) >= 3
  /\ Len(returned) >= 2
  /\ \E k \in 1..Len(returned) : Len(Embedded(returned[k])) >= 2

\* C2: after a successful byte-mode split, every returned part's byteLength
\* is the byte length of its content and is at most maxBytesPerPart.
C2_ByteLengthWithinBudget ==
  (result = "ok" /\ ByteMode) =>
    \A k \in 1..Len(returned) :
      /\ returned[k].byteLength = getUtf8ByteLength(returned[k].content)
      /\ returned[k].byteLength <= maxBytesPerPart.value

\* C2 witness: a successful byte-mode split whose second part, opened by a
\* close-and-retry step, fills the budget exactly.
C2_Witness ==
  /\ result = "ok"
  /\ ByteMode
  /\ Len(returned) >= 2
  /\ returned[2].byteLength = maxBytesPerPart.value
  /\ Len(returned[2].groups) = 1

\* C3: after a successful token-mode split, every returned part that embeds
\* exactly one file has an exact token count of at most maxTokensPerPart.
C3_SingleFilePartWithinBudget ==
  (result = "ok" /\ TokenMode) =>
    \A k \in 1..Len(returned) :
      Len(returned[k].content.files) = 1 =>
        returned[k].tokenCount <= maxTokensPerPart.value

\* C3 witness: a successful token-mode split that returns a single-file part
\* whose exact count equals the budget.
C3_Witness ==
  /\ result = "ok"
  /\ TokenMode
  /\ \E k \in 1..Len(returned) :
       /\ Len(returned[k].content.files) = 1
       /\ returned[k].tokenCount = maxTokensPerPart.value

\* The sum of the adjusted estimates (estimate + overheadPerFile) of files.
RECURSIVE AdjustedSum(_)
AdjustedSum(files) ==
  IF files = <<>> THEN 0
  ELSE tokenMap[Head(files)] + overheadPerFile + AdjustedSum(Tail(files))

\* C4 as stated: in token mode no part, single-file or multi-file, reaches
\* the caller with an exact token count above maxTokensPerPart.
C4_Original ==
  (result = "ok" /\ TokenMode) =>
    \A k \in 1..Len(returned) :
      returned[k].tokenCount <= maxTokensPerPart.value

\* C4 amended: in token mode, at every moment, a committed part that embeds
\* exactly one file has an exact token count of at most maxTokensPerPart;
\* a committed part that embeds more than one file is bounded by its
\* estimate only: the sum of its files' adjusted estimates is at most
\* maxTokensPerPart, whatever its exact count.
C4_CommittedPartsBounded ==
  TokenMode =>
    \A k \in 1..Len(parts) :
      LET files == parts[k].content.files
      IN  IF Len(files) = 1
          THEN parts[k].tokenCount <= maxTokensPerPart.value
          ELSE /\ Len(files) > 1
               /\ AdjustedSum(files) <= maxTokensPerPart.value

\* C4 witness: a successful token-mode split returns a multi-file part whose
\* exact count is above the budget.
C4_Witness ==
  /\ result = "ok"
  /\ TokenMode
  /\ \E k \in 1..Len(returned) :
       /\ Len(returned[k].content.files) > 1
       /\ returned[k].tokenCount > maxTokensPerPart.value

\* The embedded files of a list of parts, in part-index order.
EmbeddedAll(ps) == Flatten([k \in 1..Len(ps) |-> Embedded(ps[k])])

\* The position of a selected file in the input list.
InputIndex(f) == CHOOSE i \in 1..Len(processedFiles) : processedFiles[i] = f

\* C5 as stated: after a successful split, in either mode, the embedded
\* files in part-index order are the selected-files list in its input order.
C5_Original ==
  SplitSucceeded => EmbeddedAll(returned) = processedFiles

\* C5 amended: after a successful token-mode split the embedded files in
\* part-index order are the selected-files list in its input order; after a
\* successful byte-mode split they are the selected files in ascending order
\* of root entry, files of one root entry in their input order.
C5_OrderOfEmbeddedFiles ==
  SplitSucceeded =>
    LET out == EmbeddedAll(returned)
    IN  IF TokenMode
        THEN out = processedFiles
        ELSE /\ Len(out) = Len(processedFiles)
             /\ Range(out) = Range(processedFiles)
             /\ \A i \in 1..Len(out) : \A j \in 1..Len(out) :
                  i < j =>
                    LET ri == getRootEntry(out[i])
                        rj == getRootEntry(out[j])
                    IN  \/ LocaleCompare(ri, rj) < 0
                        \/ /\ ri = rj
                           /\ InputIndex(out[i]) < InputIndex(out[j])

\* C5 witness: a successful byte-mode split into two or more parts whose
\* embedded files are not in the input order.
C5_Witness ==
  /\ result = "ok"
  /\ ByteMode
  /\ Len(returned) >= 2
  /\ EmbeddedAll(returned) # processedFiles

\* The parts that embed file f.
PartsOf(f) ==
  { k \in 1..Len(returned) : f \in Range(GroupFiles(returned[k].groups)) }

\* The places <<part, position>> of group g in the parts' groups lists.
GroupPlaces(g) ==
  UNION { { <<k, n>> : n \in { m \in 1..Len(returned[k].groups) :
                                  returned[k].groups[m] = g } } :
          k \in 1..Len(returned) }

\* C6: after a successful byte-mode split, selected files that share a root
\* entry are embedded in the same part, and every group is in the groups
\* list of exactly one part.
C6_GroupsAreNotSplit ==
  (result = "ok" /\ ByteMode) =>
    /\ \A i \in 1..Len(processedFiles) : \A j \in 1..Len(processedFiles) :
         getRootEntry(processedFiles[i]) = getRootEntry(processedFiles[j])
           => PartsOf(processedFiles[i]) = PartsOf(processedFiles[j])
    /\ \A g \in 1..Len(groups) : Cardinality(GroupPlaces(groups[g])) = 1

\* C6 witness: a successful byte-mode split into two or more parts of an
\* input in which two selected files share a root entry without being
\* adjacent.
C6_Witness ==
  /\ result = "ok"
  /\ ByteMode
  /\ Len(returned) >= 2
  /\ Len(processedFiles) >= 3
  /\ getRootEntry(processedFiles[1]) = getRootEntry(processedFiles[3])
  /\ getRootEntry(processedFiles[1]) # getRootEntry(processedFiles[2])

\* C7: in byte mode, a trial render over the budget with an empty
\* accumulator, and a render of the group alone over the budget, end the
\* invocation with an 'exceeds max size' error that names the group's root
\* entry, and no part reaches the caller, closed parts included.
C7_OversizeGroupFails ==
  [][ ( /\ ByteMode
        /\ pc \in {"trial", "retry"}
        /\ measured' > maxBytesPerPart.value
        /\ pc = "retry" \/ Len(currentGroups) = 0 )
      => ( /\ pc' = "done"
           /\ result' = "error"
           /\ error' = [kind |-> "exceeds max size",
                        name |-> groups[gi].rootEntry]
           /\ returned' = <<>> ) ]_vars

\* C7 witness: a byte-mode split has failed on a group rendered alone over
\* the budget after a part had been closed, and the caller got no part.
C7_Witness ==
  /\ ByteMode
  /\ pc = "done"
  /\ measured > maxBytesPerPart.value
  /\ error.kind = "exceeds max size"
  /\ Len(parts) >= 1
  /\ returned = <<>>

\* C8: in token mode, when the exact count of a batch of exactly one file is
\* above maxTokensPerPart, the try block ends with an 'exceeds max tokens'
\* error that names the file and commits nothing, and the invocation then
\* ends with an error and no part for the caller: with that error, whenever
\* the release of the pool that stands between the two has resolved.
C8_OversizeFileFails ==
  /\ [][ ( /\ TokenMode
            /\ pc = "verify"
            /\ Len(BatchFiles) = 1
            /\ measured' > maxTokensPerPart.value )
          => ( /\ pc' = "cleanup"
               /\ outcome' = [kind |-> "exceeds max tokens",
                              name |-> BatchFiles[1]]
               /\ parts' = parts ) ]_vars
  /\ []( (pc = "done" /\ outcome.kind = "exceeds max tokens")
          => ( /\ result = "error"
               /\ returned = <<>>
               /\ taskRunner = "released" => error = outcome ) )

\* C8 witness: a token-mode split has failed on a single-file batch after an
\* earlier part had been rendered and verified, and the caller got no part.
C8_Witness ==
  /\ TokenMode
  /\ pc = "done"
  /\ error.kind = "exceeds max tokens"
  /\ error.name = processedFiles[Len(processedFiles)]
  /\ Len(parts) >= 1
  /\ returned = <<>>

\* The reference packer: first fit in input order over adjusted estimates.
\* cur is the current batch; its running total is the sum of its adjusted
\* estimates.
RECURSIVE RefPack(_, _, _)
RefPack(files, cur, budget) ==
  LET flushed == IF cur = <<>> THEN <<>> ELSE <<cur>>
  IN  IF files = <<>> THEN flushed
      ELSE LET f == Head(files)
               a == tokenMap[f] + overheadPerFile
           IN  IF a > budget
               THEN flushed \o << <<f>> >> \o RefPack(Tail(files), <<>>, budget)
               ELSE IF AdjustedSum(cur) + a <= budget
               THEN RefPack(Tail(files), Append(cur, f), budget)
               ELSE <<cur>> \o RefPack(Tail(files), <<f>>, budget)

\* The packing loop of the token splitter has run to its end.
PackingDone ==
  /\ TokenMode
  /\ pc \in {"render", "verify", "cleanup", "done"}
  /\ fi > Len(processedFiles)

\* Files i and i+1 of the input are in one pending batch.
ShareBatch(i) ==
  \E b \in 1..Len(partFileData) :
    {processedFiles[i], processedFiles[i + 1]} \subseteq Range(partFileData[b])

\* C9: once packing is done, the pending batches are those of the reference
\* first-fit packer over adjusted estimates, and two adjacent files whose
\* adjusted estimates sum above the budget are in different batches.
C9_BatchesAreFirstFit ==
  PackingDone =>
    /\ partFileData = RefPack(processedFiles, <<>>, maxTokensPerPart.value)
    /\ \A i \in 1..(Len(processedFiles) - 1) :
         AdjustedSum(<<processedFiles[i], processedFiles[i + 1]>>)
             > maxTokensPerPart.value
           => ~ShareBatch(i)

\* C9 witness: packing is done with a two-file batch that fills the budget
\* exactly, followed by a file that fits alone but not with its predecessor.
C9_Witness ==
  /\ PackingDone
  /\ Len(processedFiles) = 3
  /\ partFileData = << <<processedFiles[1], processedFiles[2]>>,
                       <<processedFiles[3]>> >>
  /\ AdjustedSum(partFileData[1]) = maxTokensPerPart.value
  /\ AdjustedSum(partFileData[2]) <= maxTokensPerPart.value

\* The release of the pool was called for and the call has settled, by
\* resolving or by rejecting.
ReleaseSettled == taskRunner \in {"released", "cleanupFailed"}

\* C10: a worker pool that was created is never released twice
\* (taskRunner.cleanup() is called at most once), its release has been
\* called for and has settled once the invocation has ended, whatever the
\* exit path, and the release of a live pool is eventually called for,
\* exactly once.
C10_PoolReleasedExactlyOnce ==
  /\ []( /\ cleanupCalls <= 1
         /\ (taskRunner \in {"releasing", "released", "cleanupFailed"})
              <=> (cleanupCalls = 1)
         /\ (pc = "done" /\ taskRunner # "none") => ReleaseSettled )
  /\ (taskRunner = "live") ~> (ReleaseSettled /\ cleanupCalls = 1)

\* C10 witness: the tokenizer failed during the exact verification of the
\* second part, and the invocation ended with the pool released once.
C10_Witness ==
  /\ TokenMode
  /\ pc = "done"
  /\ error.kind = "tokenizer"
  /\ Len(parts) = 1
  /\ measured = -1
  /\ taskRunner = "released"
  /\ cleanupCalls = 1

\* A pre-estimation request that was dispatched and has not been answered.
InFlight(i) == requests[i].status = "pending"

\* C11: in token mode the worker pool is released only once all the
\* estimation and verification work is over: from the call of
\* taskRunner.cleanup() on, on the success path or on a failure path, no
\* pre-estimation request dispatched to the pool is still in flight.
C11_NoRequestInFlightAtRelease ==
  taskRunner \in {"releasing", "released", "cleanupFailed"} =>
    \A i \in 1..Len(requests) : ~InFlight(i)

\* A budget that passes the validation: absent, or a positive safe integer.
AbsentOrPositive(b) ==
  ~b.supplied \/ (b.integer /\ b.safe /\ b.value >= 1)

\* No step of the byte splitter was taken.
ByteSplitterIdle ==
  /\ pc \notin {"trial", "retry", "flush"}
  /\ groups = <<>> /\ gi = 0 /\ currentGroups = <<>>
  /\ \A k \in 1..Len(parts) : parts[k].groups = <<>>

\* No step of the token splitter was taken.
TokenSplitterIdle ==
  /\ pc \notin {"estimating", "packing", "render", "verify", "cleanup"}
  /\ taskRunner = "none" /\ requests = <<>> /\ partFileData = <<>>
  /\ calls.initTaskRunner = 0 /\ calls.run = 0
  /\ calls.calculateOutputMetrics = 0

\* C12: with valid budgets the splitter is chosen by which budgets are
\* supplied: a supplied token budget selects the token splitter and a byte
\* budget supplied with it is ignored; otherwise a supplied byte budget
\* selects the byte splitter; with neither the call returns the empty list
\* without any renderer call, tokenizer call or pool creation.
C12_SplitterChosenByBudgets ==
  (AbsentOrPositive(maxBytesPerPart) /\ AbsentOrPositive(maxTokensPerPart)) =>
    /\ maxTokensPerPart.supplied =>
         /\ ByteSplitterIdle
         /\ pc # "start" => calls.initTaskRunner = 1
    /\ (~maxTokensPerPart.supplied /\ maxBytesPerPart.supplied) =>
         /\ TokenSplitterIdle
         /\ pc # "start" =>
              groups = buildOutputSplitGroups(processedFiles, allFilePaths)
    /\ (~maxTokensPerPart.supplied /\ ~maxBytesPerPart.supplied) =>
         /\ ByteSplitterIdle
         /\ TokenSplitterIdle
         /\ calls = NoCalls
         /\ pc \in {"start", "done"}
         /\ pc = "done" => result = "ok" /\ returned = <<>>

\* Both budgets were supplied and the token splitter returned a part longer
\* than the byte budget.
C12_Witness ==
  /\ maxTokensPerPart.supplied /\ maxBytesPerPart.supplied
  /\ result = "ok"
  /\ \E k \in 1..Len(returned) :
       /\ returned[k].byteLength > maxBytesPerPart.value
       /\ returned[k].tokenCount > 0

\* C13: a supplied byte or token budget that is not a positive safe integer
\* (zero, negative, non-integer, beyond the safe range) makes the call fail
\* with the invalid-budget error of that budget, the byte budget being
\* examined first, so also when a valid token budget comes with an invalid
\* byte budget; no renderer call, tokenizer call or pool creation happens
\* and no parts are returned.
C13_InvalidBudgetFailsFirst ==
  (~AbsentOrPositive(maxBytesPerPart) \/ ~AbsentOrPositive(maxTokensPerPart)) =>
    /\ calls = NoCalls
    /\ rendered = EmptyContent
    /\ ByteSplitterIdle
    /\ TokenSplitterIdle
    /\ pc \in {"start", "done"}
    /\ pc = "done" =>
         /\ result = "error"
         /\ returned = <<>>
         /\ error.kind = IF ~AbsentOrPositive(maxBytesPerPart)
                         THEN "Invalid maxBytesPerPart"
                         ELSE "Invalid maxTokensPerPart"

\* The call with an invalid byte budget and a valid token budget has failed.
C13_Witness ==
  /\ maxBytesPerPart = Number(0)
  /\ maxTokensPerPart = Number(41)
  /\ pc = "done"
  /\ error.kind = "Invalid maxBytesPerPart"

\* The content was rendered under part number i: with the caller's diff and
\* log data and configuration for i = 1, without diff or log data and with
\* includeDiffs and includeLogs disabled for i > 1.
RenderedAs(c, i) ==
  /\ c.partNumber = i
  /\ i = 1 => /\ c.config = "baseConfig"
              /\ c.gitDiff = "gitDiffResult"
              /\ c.gitLog = "gitLogResult"
  /\ i > 1 => /\ c.config = "gitDisabled"
              /\ c.gitDiff = NoData
              /\ c.gitLog = NoData

\* C14: in both modes the content of the part of index i was rendered under
\* part number i, so only part 1 carries the caller's diff and log data and
\* unmodified configuration; in byte mode the content of an accumulator that
\* awaits its next group or the final flush is always a render under the
\* index it will be committed with, across accept and close-and-retry steps.
C14_PartsRenderedUnderTheirIndex ==
  (ByteMode \/ TokenMode) =>
    /\ \A k \in 1..Len(parts) :
         parts[k].index = k /\ RenderedAs(parts[k].content, k)
    /\ \A k \in 1..Len(returned) :
         returned[k].index = k /\ RenderedAs(returned[k].content, k)
    /\ (ByteMode /\ pc \in {"trial", "flush"} /\ currentGroups # <<>>) =>
         RenderedAs(currentContent, Len(parts) + 1)

\* A byte-mode split returned two parts, the second one opened by a
\* close-and-retry step and extended by an accept step.
C14_Witness ==
  /\ ByteMode
  /\ result = "ok"
  /\ Len(returned) = 2
  /\ Len(returned[2].groups) = 2
  /\ returned[2].content.gitDiff = NoData

\* C15: every render call of either splitter is given split metadata whose
\* totalFiles is the number of all known paths and whose partNumber lies
\* between 1 and totalParts, totalParts being the number of groups in byte
\* mode and the number of pending batches in token mode; a byte-mode split
\* therefore returns at most as many parts as the total it announced.
C15_SplitInfoOfEveryRender ==
  /\ calls.generateOutput > 0 =>
       /\ rendered.totalFiles = Len(allFilePaths)
       /\ 1 <= rendered.partNumber
       /\ rendered.partNumber <= rendered.totalParts
       /\ ByteMode => rendered.totalParts = Len(groups)
       /\ TokenMode => rendered.totalParts = Len(partFileData)
  /\ (ByteMode /\ result = "ok") => Len(returned) <= Len(groups)

\* The last render of a byte-mode split was announced as part 3 of 3, with
\* more known paths than selected files.
C15_Witness ==
  /\ ByteMode
  /\ calls.generateOutput > 0
  /\ rendered.partNumber = 3
  /\ rendered.totalParts = 3
  /\ rendered.totalFiles > Len(processedFiles)

\* The step a byte-mode trial render takes once the renderer has answered.
C16_TrialStep ==
  (ByteMode /\ pc = "trial" /\ rendered'.bytes >= 0
     /\ calls'.generateOutput = calls.generateOutput + 1) =>
    /\ rendered'.files = GroupFiles(Append(currentGroups, groups[gi]))
    /\ rendered'.partNumber = Len(parts) + 1
    /\ rendered'.bytes <= maxBytesPerPart.value =>
         /\ currentGroups' = Append(currentGroups, groups[gi])
         /\ parts' = parts
    /\ Len(parts') > Len(parts) =>
         /\ rendered'.bytes > maxBytesPerPart.value
         /\ parts' = Append(parts, parts'[Len(parts')])
         /\ parts'[Len(parts')].index = Len(parts) + 1
         /\ parts'[Len(parts')].groups = currentGroups
         /\ pc' = "retry" /\ gi' = gi

\* The parts of the byte splitter are consecutive runs of the group list,
\* and a part is pushed by a trial step or by the final flush only.
C16_PartsAreRuns ==
  ByteMode =>
    /\ Flatten([k \in 1..Len(parts) |-> parts[k].groups])
         = SubSeq(groups, 1, Len(Flatten([k \in 1..Len(parts) |->
                                             parts[k].groups])))
    /\ result = "ok" =>
         Flatten([k \in 1..Len(returned) |-> returned[k].groups]) = groups

\* C16: byte-mode part boundaries are first-fit: a trial render of the
\* accumulator extended by the next group that is within the budget makes
\* the group join the current part, and a part k is closed before the last
\* group only by a trial, rendered as part k, of its groups together with the
\* first group of part k+1 that measured more than maxBytesPerPart.
C16_BoundariesAreFirstFit ==
  /\ [][C16_TrialStep]_vars
  /\ [][(ByteMode /\ Len(parts') > Len(parts)) => pc \in {"trial", "flush"}]_vars
  /\ []C16_PartsAreRuns

\* A byte-mode split returned a first part of two groups followed by
\* another part.
C16_Witness ==
  /\ ByteMode
  /\ result = "ok"
  /\ Len(returned) = 2
  /\ Len(returned[1].groups) = 2

\* Every pre-estimation request has been answered with a count.
AllEstimated == \A i \in 1..Len(requests) : requests[i].status = "done"

\* Token mode: where the render loop stands with respect to the calls made.
C17_CallsAlternate ==
  TokenMode =>
    /\ (pc \in {"packing", "render", "verify"} \/ partFileData # <<>>
          \/ calls.generateOutput > 0) => AllEstimated
    /\ calls.calculateOutputMetrics <= calls.generateOutput
    /\ calls.generateOutput <= calls.calculateOutputMetrics + 1
    /\ Len(parts) <= calls.calculateOutputMetrics
    /\ pc = "render" => calls.generateOutput = calls.calculateOutputMetrics
    /\ pc = "verify" => calls.generateOutput = calls.calculateOutputMetrics + 1

\* Token mode: a render call is that of the part after the last one rendered
\* and follows the verification of every part rendered before.
C17_RenderStep ==
  (TokenMode /\ calls'.generateOutput = calls.generateOutput + 1) =>
    /\ AllEstimated
    /\ partFileData' = partFileData
    /\ calls.calculateOutputMetrics = calls.generateOutput
    /\ Len(parts) = calls.generateOutput
    /\ rendered'.partNumber = calls.generateOutput + 1
    /\ rendered'.files = partFileData[calls.generateOutput + 1]

\* Token mode: an exact verification is that of the part rendered last.
C17_VerifyStep ==
  (TokenMode
     /\ calls'.calculateOutputMetrics = calls.calculateOutputMetrics + 1) =>
    /\ calls.generateOutput = calls.calculateOutputMetrics + 1
    /\ content = rendered
    /\ content.partNumber = calls.generateOutput
    /\ Len(parts') > Len(parts) => parts'[Len(parts')].content = content

\* C17: in token mode every pre-estimation request is answered before the
\* packing and before the first render; the parts are then handled one at a
\* time in increasing index order, the render of part i+1 starting only
\* after the exact verification of part i, so that renders and
\* verifications alternate without overlap.
C17_TokenModeOrder ==
  /\ []C17_CallsAlternate
  /\ [][C17_RenderStep]_vars
  /\ [][C17_VerifyStep]_vars

\* A token-mode split returned three parts after three requests, three
\* renders and three verifications.
C17_Witness ==
  /\ TokenMode
  /\ result = "ok"
  /\ Len(returned) = 3
  /\ calls.run = 3
  /\ calls.generateOutput = 3
  /\ calls.calculateOutputMetrics = 3

\* C18: once a pre-estimation request has failed in token mode the split
\* aborts with that error: no estimate map and no pending batch is built, no
\* render call and no exact verification call is made, no parts are
\* returned, and the invocation ends in an error after one settled call of
\* taskRunner.cleanup(): in that error, with the pool released, whenever the
\* call has resolved.
C18_FailedEstimateAborts ==
  (TokenMode /\ \E i \in 1..Len(requests) : requests[i].status = "failed") =>
    /\ pc \in {"estimating", "cleanup", "done"}
    /\ tokenMap = <<>> /\ partFileData = <<>> /\ currentFiles = <<>>
    /\ calls.generateOutput = 0
    /\ calls.calculateOutputMetrics = 0
    /\ parts = <<>>
    /\ returned = <<>>
    /\ result # "ok"
    /\ pc = "cleanup" => outcome.kind = "tokenizer"
    /\ pc = "done" =>
         /\ result = "error"
         /\ cleanupCalls = 1
         /\ ReleaseSettled
         /\ taskRunner = "released" => error.kind = "tokenizer"

\* A token-mode split ended after one request had failed and another one
\* had been answered with a count.
C18_Witness ==
  /\ TokenMode
  /\ pc = "done"
  /\ \E i \in 1..Len(requests) : requests[i].status = "failed"
  /\ \E i \in 1..Len(requests) : requests[i].status = "done"
  /\ taskRunner = "released"
  /\ error.kind = "tokenizer"

\* The adjusted estimate of the i-th selected file, read from the answer to
\* the request dispatched for it.
EstimateOf(i) == requests[i].count + overheadPerFile

\* The batches of the selected files from the i-th on, packed first-fit in
\* input order over EstimateOf; cur is the open batch and sum its total.
RECURSIVE BatchesFrom(_, _, _)
BatchesFrom(i, cur, sum) ==
  LET flushed == IF cur = <<>> THEN <<>> ELSE <<cur>>
      budget  == maxTokensPerPart.value
  IN  IF i > Len(processedFiles) THEN flushed
      ELSE IF EstimateOf(i) > budget
      THEN flushed \o << <<processedFiles[i]>> >> \o BatchesFrom(i + 1, <<>>, 0)
      ELSE IF sum + EstimateOf(i) > budget
      THEN <<cur>> \o BatchesFrom(i + 1, <<processedFiles[i]>>, EstimateOf(i))
      ELSE BatchesFrom(i + 1, Append(cur, processedFiles[i]),
                       sum + EstimateOf(i))

\* C19: for given selected files, budget and per-file estimates, the pending
\* batches of the token splitter are the same whatever the order in which
\* the concurrently dispatched pre-estimation requests were answered: each
\* answer is kept under the path of its own file, and the batches are a
\* function of the input order and of these estimates only.
C19_BatchesIgnoreCompletionOrder ==
  /\ (TokenMode /\ pc \in {"packing", "render"}) =>
       \A i \in 1..Len(processedFiles) :
         tokenMap[processedFiles[i]] = requests[i].count
  /\ PackingDone => partFileData = BatchesFrom(1, <<>>, 0)

\* The packing is done for three files whose requests were answered last
\* file first, with different estimates, and two batches came out.
C19_Witness ==
  /\ PackingDone
  /\ Len(completionOrder) = 3
  /\ completionOrder[1] = 3
  /\ requests[1].count # requests[3].count
  /\ Len(partFileData) = 2

\* The root entries of a list of groups, in the order of the list.
Roots(gs) == [i \in 1..Len(gs) |-> gs[i].rootEntry]

\* The lists with the elements of s in another order (s has no repetition).
Reorderings(s) == { t \in DistinctSeqs(Range(s), Len(s)) : Len(t) = Len(s) }

\* C20: buildOutputSplitGroups returns exactly one group per distinct root
\* entry of the two input lists; every known path and every selected file
\* lies in the group of its own root entry and in no other; the groups are
\* in strictly ascending order of root entry, and that order is the same for
\* every permutation of the two input lists (every reordering of either
\* list leaves it unchanged, for every pair of lists).
C20_GroupsOfRootEntries ==
  pc # "start" =>
    LET rootSet == { getRootEntry(p) :
                       p \in Range(processedFiles) \cup Range(allFilePaths) }
    IN  /\ Len(groups) = Cardinality(rootSet)
        /\ Range(Roots(groups)) = rootSet
        /\ \A i \in 1..Len(groups) :
             /\ \A p \in Range(allFilePaths) :
                  p \in Range(groups[i].allFilePaths)
                    <=> groups[i].rootEntry = getRootEntry(p)
             /\ \A f \in Range(processedFiles) :
                  f \in Range(groups[i].processedFiles)
                    <=> groups[i].rootEntry = getRootEntry(f)
        /\ \A i \in 1..(Len(groups) - 1) :
             LocaleCompare(groups[i].rootEntry, groups[i + 1].rootEntry) < 0
        /\ \A files \in Reorderings(processedFiles) :
             Roots(buildOutputSplitGroups(files, allFilePaths)) = Roots(groups)
        /\ \A paths \in Reorderings(allFilePaths) :
             Roots(buildOutputSplitGroups(processedFiles, paths)) = Roots(groups)

\* Groups were built from inputs that are not in root-entry order: the first
\* group is that of a path with a leading separator, and one group holds
\* two selected files.
C20_Witness ==
  /\ pc = "trial"
  /\ Len(groups) >= 3
  /\ groups[1].rootEntry = <<"/", "a">>
  /\ processedFiles[1] = <<"c">>
  /\ \E i \in 1..Len(groups) : Len(groups[i].processedFiles) = 2

\* C21: at every step of the token-mode packing every pending batch is
\* non-empty, and every pending batch of more than one file has a sum of
\* adjusted estimates (estimate + 20 per file) of at most maxTokensPerPart;
\* the open batch keeps the same bound, its running total being that sum.
\* A batch whose adjusted estimates exceed the budget therefore holds exactly
\* one file, and the part committed from it was verified exactly.
C21_PendingBatchesBounded ==
  TokenMode =>
    /\ \A b \in 1..Len(partFileData) :
         /\ Len(partFileData[b]) >= 1
         /\ Len(partFileData[b]) > 1 =>
              AdjustedSum(partFileData[b]) <= maxTokensPerPart.value
         /\ AdjustedSum(partFileData[b]) > maxTokensPerPart.value =>
              /\ Len(partFileData[b]) = 1
              /\ b <= Len(parts) =>
                   /\ parts[b].content.files = partFileData[b]
                   /\ parts[b].tokenCount <= maxTokensPerPart.value
    /\ currentFiles # <<>> =>
         /\ currentTokens = AdjustedSum(currentFiles)
         /\ currentTokens <= maxTokensPerPart.value

\* A token-mode split returned two parts: a two-file batch within the budget
\* and a batch of one file whose adjusted estimate is above the budget and
\* whose exact count is within it.
C21_Witness ==
  /\ TokenMode
  /\ result = "ok"
  /\ Len(partFileData) = 2
  /\ Len(partFileData[1]) = 2
  /\ AdjustedSum(partFileData[2]) > maxTokensPerPart.value
  /\ Len(returned) = 2
  /\ returned[2].tokenCount <= maxTokensPerPart.value

====
